---- MODULE Spec2Model ----
(***************************************************************************)
(* Model of best_pdf_converter.py (BestPDFConverter): the four heading     *)
(* detectors, the deduplication pass, the hierarchy builder and the        *)
(* convert_to_json / main command surface.                                 *)
(*                                                                         *)
(* Strings are sequences of one-character strings.  Confidences are kept   *)
(* in hundredths (0.95 is 95).  Python's None is the value None below.     *)
(***************************************************************************)
EXTENDS Integers, Sequences, FiniteSets, TLC

VARIABLES
    pc,                 \* position of the run
    pdf,                \* the document handed to the converter (input)
    io_ok,              \* whether open() and json.dump succeed in convert_to_json
    builtin_headings,   \* extract_all_headings: builtin_headings
    text_headings,      \* extract_all_headings: text_headings
    font_headings,      \* extract_all_headings: font_headings
    position_headings,  \* extract_all_headings: position_headings
    all_headings,       \* the list handed to _advanced_deduplication
    didx,               \* _advanced_deduplication: position of the for loop
    unique_headings,    \* _advanced_deduplication: unique_headings
    collapsed,          \* history: per accepted entry, the inputs that collapsed into it
    headings,           \* _build_hierarchy: headings (after its sort)
    hidx,               \* _build_hierarchy: position of the for loop
    stack,              \* _build_hierarchy: stack (positions in headings)
    hierarchy,          \* _build_hierarchy: hierarchy (positions in headings)
    children,           \* _build_hierarchy: the 'children' list of every heading
    result,             \* extract_all_headings: the returned dict
    output_file,        \* what convert_to_json wrote, if anything
    ret,                \* convert_to_json: the returned value
    exit_code           \* main: the process exit status

vars == <<pc, pdf, io_ok, builtin_headings, text_headings, font_headings,
          position_headings, all_headings, didx, unique_headings, collapsed,
          headings, hidx, stack, hierarchy, children, result, output_file,
          ret, exit_code>>

-----------------------------------------------------------------------------
(* Characters and the str / re primitives the code uses *)

UpperSeq == <<"A","B","C","D","E","F","G","H","I","J","K","L","M",
              "N","O","P","Q","R","S","T","U","V","W","X","Y","Z">>
LowerSeq == <<"a","b","c","d","e","f","g","h","i","j","k","l","m",
              "n","o","p","q","r","s","t","u","v","w","x","y","z">>

Range(s) == {s[i] : i \in DOMAIN s}

UpperChars == Range(UpperSeq)
LowerChars == Range(LowerSeq)
DigitChars == {"0","1","2","3","4","5","6","7","8","9"}
\* \s of the re module, as far as the modelled alphabet goes
SpaceChars == {" ", "\n", "\t", "\f"}
\* \w of the re module
WordChars == UpperChars \cup LowerChars \cup DigitChars \cup {"_"}

\* str.lower on one character
LowerChar(c) ==
    IF c \in UpperChars
    THEN LowerSeq[CHOOSE i \in DOMAIN UpperSeq : UpperSeq[i] = c]
    ELSE c

\* str.lower
StrLower(s) == [i \in DOMAIN s |-> LowerChar(s[i])]

\* s[from..] (1-based), the empty string past the end
Tail_(s, from) == SubSeq(s, from, Len(s))

\* number of leading characters of s, starting at position from, that are in cls
RunLen(s, from, cls) ==
    IF from > Len(s) THEN 0
    ELSE (CHOOSE i \in from..(Len(s) + 1) :
             /\ (i > Len(s) \/ s[i] \notin cls)
             /\ \A j \in from..(i - 1) : s[j] \in cls) - from

\* number of trailing characters of s that are in cls
RunLenBack(s, cls) ==
    Len(s) - (CHOOSE i \in 0..Len(s) :
                 /\ (i = 0 \/ s[i] \notin cls)
                 /\ \A j \in (i + 1)..Len(s) : s[j] \in cls)

\* f[lo] \o f[lo + 1] \o ... \o f[hi]
RECURSIVE ConcatRange(_, _, _)
ConcatRange(f, lo, hi) ==
    IF lo > hi THEN <<>>
    ELSE IF lo = hi THEN f[lo]
    ELSE LET mid == (lo + hi) \div 2
         IN  ConcatRange(f, lo, mid) \o ConcatRange(f, mid + 1, hi)

\* concatenation of f[1] .. f[n]
ConcatMap(f, n) == ConcatRange(f, 1, n)

\* str.strip()
Strip(s) ==
    LET a == RunLen(s, 1, SpaceChars)
    IN  IF a = Len(s) THEN <<>>
        ELSE SubSeq(s, a + 1, Len(s) - RunLenBack(s, SpaceChars))

\* re.sub(r'\s+', ' ', s): a run of whitespace leaves one blank, at its first character
CollapseSpaces(s) ==
    ConcatMap([i \in DOMAIN s |->
                  IF s[i] \notin SpaceChars THEN <<s[i]>>
                  ELSE IF i > 1 /\ s[i - 1] \in SpaceChars THEN <<>>
                  ELSE <<" ">>],
              Len(s))

\* re.sub(r'\f', '\n', s)
FormFeedToNewline(s) == [i \in DOMAIN s |-> IF s[i] = "\f" THEN "\n" ELSE s[i]]

\* s[from..to] is whitespace only
AllSpace(s, from, to) == \A k \in from..to : s[k] \in SpaceChars

\* re.sub(r'\n\s*\n', '\n', s): within a run of whitespace, what follows its
\* first newline up to its last newline is dropped
CollapseBlankLines(s) ==
    ConcatMap([i \in DOMAIN s |->
                  IF /\ \E p \in 1..(i - 1) : s[p] = "\n" /\ AllSpace(s, p, i)
                     /\ \E q \in i..Len(s) : s[q] = "\n" /\ AllSpace(s, i, q)
                  THEN <<>>
                  ELSE <<s[i]>>],
              Len(s))

\* str.split('\n'): every newline separates, empty pieces are kept
RECURSIVE SplitLines(_)
SplitLines(s) ==
    LET n == RunLen(s, 1, {s[i] : i \in DOMAIN s} \ {"\n"})
    IN  IF n = Len(s) THEN <<s>>
        ELSE <<SubSeq(s, 1, n)>> \o SplitLines(Tail_(s, n + 2))

\* str.split(): pieces between runs of whitespace, no empty piece
RECURSIVE SplitWords(_)
SplitWords(s) ==
    LET sp == RunLen(s, 1, SpaceChars)
        t  == Tail_(s, sp + 1)
        n  == RunLen(t, 1, {t[i] : i \in DOMAIN t} \ SpaceChars)
    IN  IF t = <<>> THEN <<>>
        ELSE <<SubSeq(t, 1, n)>> \o SplitWords(Tail_(t, n + 1))

\* str.isupper(): some cased character, and no lowercase one
IsUpperStr(s) ==
    /\ \E i \in DOMAIN s : s[i] \in UpperChars
    /\ \A i \in DOMAIN s : s[i] \notin LowerChars

\* line[0].isupper()
FirstIsUpper(s) == Len(s) > 0 /\ s[1] \in UpperChars

\* str.endswith('.')
EndsWithDot(s) == Len(s) > 0 /\ s[Len(s)] = "."

\* str.count(c)
CountChar(s, c) == Cardinality({i \in DOMAIN s : s[i] = c})

\* needle in s
Contains(s, needle) ==
    \E i \in 1..(Len(s) - Len(needle) + 1) :
        SubSeq(s, i, i + Len(needle) - 1) = needle

\* s.startswith(prefix)
StartsWith(s, prefix) ==
    Len(s) >= Len(prefix) /\ SubSeq(s, 1, Len(prefix)) = prefix

\* int(digits) for a string of decimal digits
RECURSIVE ParseInt(_)
ParseInt(s) ==
    IF s = <<>> THEN 0
    ELSE 10 * ParseInt(SubSeq(s, 1, Len(s) - 1))
         + (CHOOSE d \in 0..9 : <<"0","1","2","3","4","5","6","7","8","9">>[d + 1] = s[Len(s)])

-----------------------------------------------------------------------------
(* _clean_extracted_text *)

CleanExtractedText(text) ==
    Strip(CollapseBlankLines(FormFeedToNewline(CollapseSpaces(text))))

-----------------------------------------------------------------------------
(* Heading candidates *)

\* Python's None (a page_number that could not be resolved)
None == -1
\* a key the dict does not have ('line_number' of a builtin-outline item)
Absent == -2

Heading(title, level, page_number, line_number, source, confidence) ==
    [title |-> title, level |-> level, page_number |-> page_number,
     line_number |-> line_number, source |-> source, confidence |-> confidence]

-----------------------------------------------------------------------------
(* _is_regular_text, _is_title_case, _contains_heading_keywords *)

\* everything of s from position i on is whitespace: \s*$
RestIsSpace(s, i) == RunLen(s, i, SpaceChars) = Len(s) - i + 1

\* $ at position i: the end, or just before a final newline
AtEnd(s, i) == i = Len(s) + 1 \/ (i = Len(s) /\ s[i] = "\n")

BulletChars == {"-", "*"}

\* the skip_patterns list, each tried with re.match
SkipPatternMatches(line) ==
    LET sp == RunLen(line, 1, SpaceChars)
        b  == sp + 1
        nd == RunLen(line, b, DigitChars)
        nu == RunLen(line, b, UpperChars)
        nl == RunLen(line, b, LowerChars)
        nl2 == RunLen(line, b + 1, LowerChars)
    IN  \/ RestIsSpace(line, 1)                                   \* ^\s*$
        \/ LET n == RunLen(line, 1, DigitChars)                   \* ^\d+$
           IN  n >= 1 /\ AtEnd(line, n + 1)
        \/ (Len(line) >= 1 /\ line[1] \in LowerChars)             \* ^[a-z]
        \/ (Len(line) >= 1 /\ line[1] = "." /\ AtEnd(line, 2))    \* \.$
        \/ (b <= Len(line) /\ line[b] \in BulletChars)            \* ^\s*[-*]\s*
        \/ (/\ nd >= 1                                            \* ^\s*\d+\.\s*$
            /\ b + nd <= Len(line)
            /\ line[b + nd] = "."
            /\ RestIsSpace(line, b + nd + 1))
        \/ (nu = 1 /\ RestIsSpace(line, b + 1))                   \* ^\s*[A-Z]\s*$
        \/ (nu \in 1..2 /\ RestIsSpace(line, b + nu))             \* ^\s*[A-Z]{1,2}\s*$
        \/ (nl \in 1..3 /\ RestIsSpace(line, b + nl))             \* ^\s*[a-z]{1,3}\s*$
        \/ (/\ b <= Len(line)                                     \* ^\s*[A-Z][a-z]{1,2}\s*$
            /\ line[b] \in UpperChars
            /\ nl2 \in 1..2
            /\ RestIsSpace(line, b + 1 + nl2))

\* re.search(r'[.!?]\s*$', line)
EndsLikeSentence(line) ==
    \E i \in DOMAIN line : line[i] \in {".", "!", "?"} /\ RestIsSpace(line, i + 1)

IsRegularText(line) ==
    \/ SkipPatternMatches(line)
    \/ (EndsLikeSentence(line) /\ Len(SplitWords(line)) > 10)

IsTitleCase(text) ==
    LET words == SplitWords(text)
        capitalized_count == Cardinality({i \in DOMAIN words : FirstIsUpper(words[i])})
    IN  /\ Len(words) >= 2
        /\ FirstIsUpper(words[1])
        /\ 10 * capitalized_count >= 6 * Len(words)     \* >= len(words) * 0.6

HeadingKeywords == {
    <<"i", "n", "t", "r", "o", "d", "u", "c", "t", "i", "o", "n">>,
    <<"o", "v", "e", "r", "v", "i", "e", "w">>,
    <<"b", "a", "c", "k", "g", "r", "o", "u", "n", "d">>,
    <<"m", "e", "t", "h", "o", "d">>,
    <<"m", "e", "t", "h", "o", "d", "o", "l", "o", "g", "y">>,
    <<"r", "e", "s", "u", "l", "t", "s">>,
    <<"d", "i", "s", "c", "u", "s", "s", "i", "o", "n">>,
    <<"c", "o", "n", "c", "l", "u", "s", "i", "o", "n">>,
    <<"s", "u", "m", "m", "a", "r", "y">>,
    <<"a", "b", "s", "t", "r", "a", "c", "t">>,
    <<"c", "h", "a", "p", "t", "e", "r">>,
    <<"s", "e", "c", "t", "i", "o", "n">>,
    <<"p", "a", "r", "t">>,
    <<"a", "p", "p", "e", "n", "d", "i", "x">>,
    <<"r", "e", "f", "e", "r", "e", "n", "c", "e">>,
    <<"b", "i", "b", "l", "i", "o", "g", "r", "a", "p", "h", "y">>,
    <<"r", "o", "u", "n", "d">>,
    <<"p", "h", "a", "s", "e">>,
    <<"s", "t", "e", "p">>,
    <<"s", "t", "a", "g", "e">>,
    <<"l", "e", "v", "e", "l">>,
    <<"c", "h", "a", "l", "l", "e", "n", "g", "e">>,
    <<"t", "a", "s", "k">>,
    <<"o", "b", "j", "e", "c", "t", "i", "v", "e">>,
    <<"g", "o", "a", "l">>,
    <<"p", "u", "r", "p", "o", "s", "e">>,
    <<"s", "c", "o", "p", "e">>,
    <<"l", "i", "m", "i", "t", "a", "t", "i", "o", "n">>,
    <<"r", "e", "q", "u", "i", "r", "e", "m", "e", "n", "t">>
}

ContainsHeadingKeywords(text) ==
    LET text_lower == StrLower(text)
    IN  \E keyword \in HeadingKeywords : Contains(text_lower, keyword)

-----------------------------------------------------------------------------
(* _analyze_line_for_heading *)

\* where (\.\d+)* stops when it starts at position i
RECURSIVE AfterDotGroups(_, _)
AfterDotGroups(s, i) ==
    IF i + 1 <= Len(s) /\ s[i] = "." /\ s[i + 1] \in DigitChars
    THEN AfterDotGroups(s, i + 1 + RunLen(s, i + 1, DigitChars))
    ELSE i

\* re.match(r'^\d+(\.\d+)*\.?\s+[A-Z]', line)
MatchesNumbered(line) ==
    LET d == RunLen(line, 1, DigitChars)
        g == AfterDotGroups(line, d + 1)
        q == IF g <= Len(line) /\ line[g] = "." THEN g + 1 ELSE g
        w == RunLen(line, q, SpaceChars)
    IN  /\ d >= 1
        /\ w >= 1
        /\ q + w <= Len(line)
        /\ line[q + w] \in UpperChars

\* re.match(r'^[A-Z][A-Za-z\s]{2,}$', line)
MatchesCapitalized(line) ==
    /\ FirstIsUpper(line)
    /\ Len(line) >= 3
    /\ RunLen(line, 2, UpperChars \cup LowerChars \cup SpaceChars) = Len(line) - 1

SectionWords == {
    <<"s", "e", "c", "t", "i", "o", "n">>,
    <<"c", "h", "a", "p", "t", "e", "r">>,
    <<"p", "a", "r", "t">>,
    <<"a", "p", "p", "e", "n", "d", "i", "x">>,
    <<"r", "o", "u", "n", "d">>,
    <<"p", "h", "a", "s", "e">>
}

\* re.match(r'^(Section|Chapter|Part|Appendix|Round|Phase)\s+\d+', line, re.IGNORECASE)
MatchesSectionWord(line) ==
    \E word \in SectionWords :
        LET w == RunLen(line, Len(word) + 1, SpaceChars)
        IN  /\ StartsWith(StrLower(line), word)
            /\ w >= 1
            /\ RunLen(line, Len(word) + 1 + w, DigitChars) >= 1

NumberedConfidence == 90
AllCapsConfidence == 85
KeywordConfidence == 80
CapitalizedConfidence == 75
SectionConfidence == 90
ShortLineConfidence == 70
\* a line is emitted only "if confidence > 0.6"
EmitThreshold == 60

\* the (confidence, level) the if/elif chain of _analyze_line_for_heading assigns
LinePattern(line) ==
    IF MatchesNumbered(line)
    THEN [confidence |-> NumberedConfidence, level |-> CountChar(line, ".")]
    ELSE IF IsUpperStr(line) /\ Len(line) > 3 /\ Len(line) < 100
    THEN [confidence |-> AllCapsConfidence, level |-> 0]
    ELSE IF IsTitleCase(line) /\ ContainsHeadingKeywords(line)
    THEN [confidence |-> KeywordConfidence, level |-> 1]
    ELSE IF MatchesCapitalized(line) /\ Len(SplitWords(line)) <= 8
    THEN [confidence |-> CapitalizedConfidence, level |-> 2]
    ELSE IF MatchesSectionWord(line)
    THEN [confidence |-> SectionConfidence, level |-> 0]
    ELSE IF Len(SplitWords(line)) <= 5 /\ FirstIsUpper(line) /\ ~EndsWithDot(line)
    THEN [confidence |-> ShortLineConfidence, level |-> 2]
    ELSE [confidence |-> 0, level |-> 0]

\* the list of candidates (none or one) _analyze_line_for_heading returns for a line
AnalyzeLineForHeading(raw_line, page_num, line_num) ==
    LET line == CollapseSpaces(Strip(raw_line))
        p == LinePattern(line)
    IN  IF Len(line) < 3 \/ Len(line) > 200 THEN <<>>
        ELSE IF IsRegularText(line) THEN <<>>
        ELSE IF p.confidence > EmitThreshold
        THEN <<Heading(line, p.level, page_num, line_num, "text_analysis", p.confidence)>>
        ELSE <<>>

-----------------------------------------------------------------------------
(* _extract_headings_from_text, _extract_headings_by_font,
   _extract_headings_by_position: pages is the list of the pages' texts *)

TextHeadingsOfPage(text, page_num) ==
    LET lines == SplitLines(CleanExtractedText(text))
    IN  IF text = <<>> THEN <<>>
        ELSE ConcatMap([line_num \in DOMAIN lines |->
                           LET line == Strip(lines[line_num])
                           IN  IF Len(line) < 3 THEN <<>>
                               ELSE AnalyzeLineForHeading(line, page_num, line_num)],
                       Len(lines))

ExtractHeadingsFromText(pages) ==
    ConcatMap([page_num \in DOMAIN pages |-> TextHeadingsOfPage(pages[page_num], page_num)],
              Len(pages))

FontConfidence == 60

FontHeadingsOfPage(text, page_num) ==
    LET lines == SplitLines(text)
    IN  IF text = <<>> THEN <<>>
        ELSE ConcatMap([line_num \in DOMAIN lines |->
                           LET line == Strip(lines[line_num])
                           IN  IF /\ Len(line) > 3
                                  /\ Len(line) < 50
                                  /\ \/ IsUpperStr(line)
                                     \/ /\ FirstIsUpper(line)
                                        /\ Len(SplitWords(line)) <= 6
                                        /\ ~EndsWithDot(line)
                               THEN <<Heading(line, 1, page_num, line_num,
                                              "font_analysis", FontConfidence)>>
                               ELSE <<>>],
                       Len(lines))

ExtractHeadingsByFont(pages) ==
    ConcatMap([page_num \in DOMAIN pages |-> FontHeadingsOfPage(pages[page_num], page_num)],
              Len(pages))

\* a position confidence below the floor
PositionConfidenceLow == 65 - 10

PositionConfidence == 65

PositionHeadingsOfPage(text, page_num) ==
    LET lines == SplitLines(text)
    IN  IF text = <<>> THEN <<>>
        ELSE ConcatMap([line_num \in DOMAIN lines |->
                           LET line == Strip(lines[line_num])
                           IN  IF /\ line_num <= 3
                                  /\ Len(line) > 3
                                  /\ Len(line) < 100
                                  /\ FirstIsUpper(line)
                                  /\ ~EndsWithDot(line)
                               THEN <<Heading(line, IF line_num = 1 THEN 0 ELSE 1,
                                              page_num, line_num,
                                              "position_analysis", PositionConfidence)>>
                               ELSE <<>>],
                       Len(lines))

ExtractHeadingsByPosition(pages) ==
    ConcatMap([page_num \in DOMAIN pages |-> PositionHeadingsOfPage(pages[page_num], page_num)],
              Len(pages))

-----------------------------------------------------------------------------
(* _normalize_title, _calculate_similarity and one turn of the loop of
   _advanced_deduplication *)

\* re.sub(r'[^\w\s]', '', s)
RemovePunctuation(s) ==
    ConcatMap([i \in DOMAIN s |->
                  IF s[i] \in WordChars \cup SpaceChars THEN <<s[i]>> ELSE <<>>],
              Len(s))

NormalizeTitle(title) == RemovePunctuation(CollapseSpaces(Strip(StrLower(title))))

\* the fraction _calculate_similarity returns, as numerator and denominator
CalculateSimilarity(title1, title2) ==
    LET words1 == Range(SplitWords(title1))
        words2 == Range(SplitWords(title2))
    IN  IF title1 = <<>> \/ title2 = <<>> THEN [num |-> 0, den |-> 1]
        ELSE IF words1 = {} \/ words2 = {} THEN [num |-> 0, den |-> 1]
        ELSE [num |-> Cardinality(words1 \cap words2),
              den |-> Cardinality(words1 \cup words2)]

\* _calculate_similarity(title1, title2) > 0.8
SimilarityExceeds(title1, title2) ==
    LET s == CalculateSimilarity(title1, title2)
    IN  10 * s.num > 8 * s.den

\* the test that sets is_duplicate for one existing entry
IsDuplicateOf(normalized_title, existing) ==
    LET existing_normalized == NormalizeTitle(Strip(existing.title))
    IN  \/ normalized_title = existing_normalized
        \/ SimilarityExceeds(normalized_title, existing_normalized)

\* position of the entry at which the inner loop breaks, 0 when it runs to the end
FirstDuplicate(unique, normalized_title) ==
    LET D == {k \in DOMAIN unique : IsDuplicateOf(normalized_title, unique[k])}
    IN  IF D = {} THEN 0 ELSE CHOOSE k \in D : \A j \in D : k <= j

RemoveAt(s, k) == SubSeq(s, 1, k - 1) \o SubSeq(s, k + 1, Len(s))

\* position list.remove(x) removes: the first entry equal to x
FirstEqual(s, x) == CHOOSE k \in DOMAIN s : s[k] = x /\ \A j \in 1..(k - 1) : s[j] # x

\* the comparison with >= in place of >: a tie replaces the accepted entry
ReplacesOnTie(heading, existing) == heading.confidence >= existing.confidence

\* "if heading.get('confidence', 0) > existing.get('confidence', 0)"
Replaces(heading, existing) == heading.confidence > existing.confidence

\* unique_headings after the loop body has run for heading
DedupOne(unique, heading) ==
    LET title == Strip(heading.title)
        k == FirstDuplicate(unique, NormalizeTitle(title))
    IN  IF title = <<>> THEN unique
        ELSE IF k = 0 THEN Append(unique, heading)
        ELSE IF Replaces(heading, unique[k])
             THEN Append(RemoveAt(unique, FirstEqual(unique, unique[k])), heading)
             ELSE unique

\* _advanced_deduplication as a function of its argument
RECURSIVE AdvancedDeduplication(_)
AdvancedDeduplication(hs) ==
    IF hs = <<>> THEN <<>>
    ELSE DedupOne(AdvancedDeduplication(SubSeq(hs, 1, Len(hs) - 1)), hs[Len(hs)])

-----------------------------------------------------------------------------
(* _get_page_number, _process_outline_items, _extract_builtin_outline.
   An outline is a list of items; an item is an entry (kind "entry", with a
   title and a page reference) or a nested list (kind "list", with items).
   A page reference is an int (t "int", value n), a float (t "float", value
   n tenths), a string (t "str", characters s), None (t "none"), or the
   attribute is missing (t "absent"). *)

\* int(x) of a float given in tenths: truncation towards zero
FloatToInt(tenths) == IF tenths >= 0 THEN tenths \div 10 ELSE -((-tenths) \div 10)

\* re.findall(r'\d+', s)[0] as an int, for a string that has a digit
FirstNumber(s) ==
    LET first == CHOOSE i \in DOMAIN s :
                    s[i] \in DigitChars /\ \A j \in 1..(i - 1) : s[j] \notin DigitChars
    IN  ParseInt(SubSeq(s, first, first + RunLen(s, first, DigitChars) - 1))

\* the conversion without the "+ 1": the 0-based index is passed through
GetPageNumberZeroBased(page) ==
    IF page.t \in {"absent", "none"} THEN None
    ELSE IF page.t = "int" THEN page.n
    ELSE IF page.t = "float" THEN FloatToInt(page.n)
    ELSE IF \E i \in DOMAIN page.s : page.s[i] \in DigitChars
         THEN FirstNumber(page.s)
         ELSE None

GetPageNumber(page) ==
    IF page.t \in {"absent", "none"} THEN None
    ELSE IF page.t = "int" THEN page.n + 1
    ELSE IF page.t = "float" THEN FloatToInt(page.n) + 1
    ELSE IF \E i \in DOMAIN page.s : page.s[i] \in DigitChars
         THEN FirstNumber(page.s) + 1
         ELSE None

RECURSIVE ProcessOutlineItems(_, _)
ProcessOutlineItems(items, level) ==
    ConcatMap([i \in DOMAIN items |->
                  IF items[i].kind = "list"
                  THEN ProcessOutlineItems(items[i].items, level + 1)
                  ELSE <<Heading(items[i].title, level, GetPageNumber(items[i].page),
                                 Absent, "builtin_outline", Absent)>>],
              Len(items))

BuiltinConfidence == 95

ExtractBuiltinOutline(outline) ==
    LET outline_items == ProcessOutlineItems(outline, 0)
    IN  [i \in DOMAIN outline_items |->
            [outline_items[i] EXCEPT !.source = "builtin_outline",
                                     !.confidence = BuiltinConfidence]]

-----------------------------------------------------------------------------
(* list.sort with the two keys the code uses *)

\* x.get('page_number', 0): the key is always there, its value may be None
PageKey(h) == h.page_number
\* x.get('line_number', 0)
LineKey(h) == IF h.line_number = Absent THEN 0 ELSE h.line_number

\* key of the sort of extract_all_headings
PositionKey(h) == <<PageKey(h), LineKey(h)>>
\* key of the sort of _build_hierarchy
LevelKey(h) == <<h.level, PageKey(h), LineKey(h)>>

\* a < b for two tuples of ints of the same length
LexLess(a, b) ==
    \E i \in DOMAIN a : a[i] < b[i] /\ \A j \in 1..(i - 1) : a[j] = b[j]

\* the sort compares None with an int (TypeError) exactly when two keys first
\* differ at a place where one of them holds None
KeysComparable(a, b) ==
    \A i \in DOMAIN a :
        (a[i] # b[i] /\ \A j \in 1..(i - 1) : a[j] = b[j])
            => (a[i] # None /\ b[i] # None)

SortRaises(hs, key) ==
    \E i, j \in DOMAIN hs : ~KeysComparable(key[hs[i]], key[hs[j]])

\* list.sort(key=...): stable, ascending
RECURSIVE Sorted(_, _)
Sorted(hs, key) ==
    IF hs = <<>> THEN <<>>
    ELSE LET front == Sorted(SubSeq(hs, 1, Len(hs) - 1), key)
             x == hs[Len(hs)]
             k == Cardinality({i \in DOMAIN front : ~LexLess(key[x], key[front[i]])})
         IN  SubSeq(front, 1, k) \o <<x>> \o SubSeq(front, k + 1, Len(front))

SortedByPosition(hs) == Sorted(hs, [h \in Range(hs) |-> PositionKey(h)])
\* the list handed to the stack loop as it came, without the sort of line 464
SortedByLevelSkipped(hs) == hs
SortedByLevel(hs) == Sorted(hs, [h \in Range(hs) |-> LevelKey(h)])
PositionSortRaises(hs) == SortRaises(hs, [h \in Range(hs) |-> PositionKey(h)])
LevelSortRaises(hs) == SortRaises(hs, [h \in Range(hs) |-> LevelKey(h)])

-----------------------------------------------------------------------------
(* The run: main -> convert_to_json -> extract_all_headings *)

NoResult == [kind |-> "none", total_headings |-> 0,
             extraction_methods |-> [builtin_outline |-> 0, text_analysis |-> 0,
                                     font_analysis |-> 0, position_analysis |-> 0],
             headings |-> <<>>, children |-> <<>>]

\* {"error": "Failed to load PDF"}
ErrorResult == [NoResult EXCEPT !.kind = "error"]

\* an exception that leaves extract_all_headings
RaisedResult == [NoResult EXCEPT !.kind = "raised"]

\* load_pdf returns True
LoadSucceeds(doc) == doc.status = "ok" /\ Len(doc.pages) > 0

\* extract_all_headings, lines 53-54: load_pdf and the early return
LoadPdf ==
    /\ pc = "start"
    /\ IF LoadSucceeds(pdf)
       THEN /\ pc' = "builtin"
            /\ UNCHANGED result
       ELSE /\ pc' = "extracted"
            /\ result' = ErrorResult
    /\ UNCHANGED <<pdf, io_ok, builtin_headings, text_headings, font_headings,
                   position_headings, all_headings, didx, unique_headings,
                   collapsed, headings, hidx, stack, hierarchy, children,
                   output_file, ret, exit_code>>

\* line 59
ExtractBuiltin ==
    /\ pc = "builtin"
    /\ builtin_headings' = ExtractBuiltinOutline(pdf.outline)
    /\ pc' = "text"
    /\ UNCHANGED <<pdf, io_ok, text_headings, font_headings, position_headings,
                   all_headings, didx, unique_headings, collapsed, headings, hidx,
                   stack, hierarchy, children, result, output_file, ret, exit_code>>

\* line 60
ExtractText ==
    /\ pc = "text"
    /\ text_headings' = ExtractHeadingsFromText(pdf.pages)
    /\ pc' = "font"
    /\ UNCHANGED <<pdf, io_ok, builtin_headings, font_headings, position_headings,
                   all_headings, didx, unique_headings, collapsed, headings, hidx,
                   stack, hierarchy, children, result, output_file, ret, exit_code>>

\* line 61
ExtractFont ==
    /\ pc = "font"
    /\ font_headings' = ExtractHeadingsByFont(pdf.pages)
    /\ pc' = "position"
    /\ UNCHANGED <<pdf, io_ok, builtin_headings, text_headings, position_headings,
                   all_headings, didx, unique_headings, collapsed, headings, hidx,
                   stack, hierarchy, children, result, output_file, ret, exit_code>>

\* line 62
ExtractPosition ==
    /\ pc = "position"
    /\ position_headings' = ExtractHeadingsByPosition(pdf.pages)
    /\ pc' = "combine"
    /\ UNCHANGED <<pdf, io_ok, builtin_headings, text_headings, font_headings,
                   all_headings, didx, unique_headings, collapsed, headings, hidx,
                   stack, hierarchy, children, result, output_file, ret, exit_code>>

\* lines 65-69, and the entry of _advanced_deduplication
Combine ==
    /\ pc = "combine"
    /\ all_headings' = builtin_headings \o text_headings \o font_headings
                       \o position_headings
    /\ didx' = 1
    /\ unique_headings' = <<>>
    /\ collapsed' = <<>>
    /\ pc' = "dedup"
    /\ UNCHANGED <<pdf, io_ok, builtin_headings, text_headings, font_headings,
                   position_headings, headings, hidx, stack, hierarchy, children,
                   result, output_file, ret, exit_code>>

\* the history of one turn of the loop: which inputs collapsed into which entry
CollapseOne(unique, hist, heading, i) ==
    LET title == Strip(heading.title)
        k == FirstDuplicate(unique, NormalizeTitle(title))
        merged == [origin |-> IF Replaces(heading, unique[k]) THEN i ELSE hist[k].origin,
                   group |-> hist[k].group \cup {i}]
    IN  IF title = <<>> THEN hist
        ELSE IF k = 0 THEN Append(hist, [origin |-> i, group |-> {i}])
        ELSE IF Replaces(heading, unique[k])
             THEN Append(RemoveAt(hist, FirstEqual(unique, unique[k])), merged)
             ELSE [hist EXCEPT ![k] = merged]

\* _advanced_deduplication: one turn of "for heading in headings"
DedupStep ==
    /\ pc = "dedup"
    /\ didx <= Len(all_headings)
    /\ unique_headings' = DedupOne(unique_headings, all_headings[didx])
    /\ collapsed' = CollapseOne(unique_headings, collapsed, all_headings[didx], didx)
    /\ didx' = didx + 1
    /\ UNCHANGED <<pc, pdf, io_ok, builtin_headings, text_headings, font_headings,
                   position_headings, all_headings, headings, hidx, stack,
                   hierarchy, children, result, output_file, ret, exit_code>>

\* _advanced_deduplication: return unique_headings
DedupReturn ==
    /\ pc = "dedup"
    /\ didx > Len(all_headings)
    /\ pc' = "sort"
    /\ UNCHANGED <<pdf, io_ok, builtin_headings, text_headings, font_headings,
                   position_headings, all_headings, didx, unique_headings,
                   collapsed, headings, hidx, stack, hierarchy, children, result,
                   output_file, ret, exit_code>>

\* line 75: final_headings.sort(...); final_headings is the list unique_headings
SortFinal ==
    /\ pc = "sort"
    /\ IF PositionSortRaises(unique_headings)
       THEN /\ result' = RaisedResult
            /\ pc' = "extracted"
            /\ UNCHANGED unique_headings
       ELSE /\ unique_headings' = SortedByPosition(unique_headings)
            /\ pc' = "build"
            /\ UNCHANGED result
    /\ UNCHANGED <<pdf, io_ok, builtin_headings, text_headings, font_headings,
                   position_headings, all_headings, didx, collapsed, headings,
                   hidx, stack, hierarchy, children, output_file, ret, exit_code>>

\* _build_hierarchy, line 464: headings.sort(...) sorts the caller's list in place
BuildSort ==
    /\ pc = "build"
    /\ IF LevelSortRaises(unique_headings)
       THEN /\ result' = RaisedResult
            /\ pc' = "extracted"
            /\ UNCHANGED <<unique_headings, headings, hidx, stack, hierarchy, children>>
       ELSE /\ headings' = SortedByLevel(unique_headings)
            /\ unique_headings' = headings'
            /\ hidx' = 1
            /\ stack' = <<>>
            /\ hierarchy' = <<>>
            /\ children' = [i \in 1..Len(unique_headings) |-> <<>>]
            /\ pc' = "build_loop"
            /\ UNCHANGED result
    /\ UNCHANGED <<pdf, io_ok, builtin_headings, text_headings, font_headings,
                   position_headings, all_headings, didx, collapsed, output_file,
                   ret, exit_code>>

\* the loop with > in place of >=: an entry of the same level stays on the stack
RECURSIVE PopStackStrict(_, _, _)
PopStackStrict(hs, stk, level) ==
    IF stk # <<>> /\ hs[stk[Len(stk)]].level > level
    THEN PopStackStrict(hs, SubSeq(stk, 1, Len(stk) - 1), level)
    ELSE stk

\* "while stack and stack[-1]['level'] >= level: stack.pop()"
RECURSIVE PopStack(_, _, _)
PopStack(hs, stk, level) ==
    IF stk # <<>> /\ hs[stk[Len(stk)]].level >= level
    THEN PopStack(hs, SubSeq(stk, 1, Len(stk) - 1), level)
    ELSE stk

\* the loop body with "stack[-1]['children'] = [heading]" for lines 481-483:
\* the parent's list is replaced instead of appended to
HierarchyStepResetsChildren ==
    /\ pc = "build_loop"
    /\ hidx <= Len(headings)
    /\ LET popped == PopStack(headings, stack, headings[hidx].level)
       IN  /\ IF popped = <<>>
              THEN /\ hierarchy' = Append(hierarchy, hidx)
                   /\ UNCHANGED children
              ELSE /\ children' = [children EXCEPT ![popped[Len(popped)]] = <<hidx>>]
                   /\ UNCHANGED hierarchy
           /\ stack' = Append(popped, hidx)
    /\ hidx' = hidx + 1
    /\ UNCHANGED <<pc, pdf, io_ok, builtin_headings, text_headings, font_headings,
                   position_headings, all_headings, didx, unique_headings,
                   collapsed, headings, result, output_file, ret, exit_code>>

\* _build_hierarchy: one turn of "for heading in headings"
HierarchyStep ==
    /\ pc = "build_loop"
    /\ hidx <= Len(headings)
    /\ LET popped == PopStack(headings, stack, headings[hidx].level)
       IN  /\ IF popped = <<>>
              THEN /\ hierarchy' = Append(hierarchy, hidx)
                   /\ UNCHANGED children
              ELSE /\ children' = [children EXCEPT ![popped[Len(popped)]] =
                                       Append(@, hidx)]
                   /\ UNCHANGED hierarchy
           /\ stack' = Append(popped, hidx)
    /\ hidx' = hidx + 1
    /\ UNCHANGED <<pc, pdf, io_ok, builtin_headings, text_headings, font_headings,
                   position_headings, all_headings, didx, unique_headings,
                   collapsed, headings, result, output_file, ret, exit_code>>

\* _build_hierarchy: return hierarchy
HierarchyReturn ==
    /\ pc = "build_loop"
    /\ hidx > Len(headings)
    /\ pc' = "assemble"
    /\ UNCHANGED <<pdf, io_ok, builtin_headings, text_headings, font_headings,
                   position_headings, all_headings, didx, unique_headings,
                   collapsed, headings, hidx, stack, hierarchy, children, result,
                   output_file, ret, exit_code>>

\* the counts taken from the deduplicated list instead of the detectors' lists
CountOfSource(hs, source) == Cardinality({i \in DOMAIN hs : hs[i].source = source})

ExtractionMethodsAfterDedup(builtin, text, font, position) ==
    [builtin_outline |-> CountOfSource(unique_headings, "builtin_outline"),
     text_analysis |-> CountOfSource(unique_headings, "text_analysis"),
     font_analysis |-> CountOfSource(unique_headings, "font_analysis"),
     position_analysis |-> CountOfSource(unique_headings, "position_analysis")]

\* the "extraction_methods" dict of lines 83-88
ExtractionMethods(builtin, text, font, position) ==
    [builtin_outline |-> Len(builtin), text_analysis |-> Len(text),
     font_analysis |-> Len(font), position_analysis |-> Len(position)]

\* lines 80-90: the returned report
Assemble ==
    /\ pc = "assemble"
    /\ result' = [kind |-> "report",
                  total_headings |-> Len(unique_headings),
                  extraction_methods |->
                      ExtractionMethods(builtin_headings, text_headings,
                                        font_headings, position_headings),
                  headings |-> hierarchy,
                  children |-> children]
    /\ pc' = "extracted"
    /\ UNCHANGED <<pdf, io_ok, builtin_headings, text_headings, font_headings,
                   position_headings, all_headings, didx, unique_headings,
                   collapsed, headings, hidx, stack, hierarchy, children,
                   output_file, ret, exit_code>>

\* convert_to_json, lines 521-533: what is written and returned for a result
WrittenFile(res, can_write) ==
    IF res.kind = "raised" \/ ~can_write THEN NoResult ELSE res

ReturnedPath(res, can_write) ==
    IF res.kind = "raised" \/ ~can_write THEN "None" ELSE "output_path"

WriteJson ==
    /\ pc = "extracted"
    /\ io_ok' \in BOOLEAN
    /\ output_file' = WrittenFile(result, io_ok')
    /\ ret' = ReturnedPath(result, io_ok')
    /\ pc' = "returned"
    /\ UNCHANGED <<pdf, builtin_headings, text_headings, font_headings,
                   position_headings, all_headings, didx, unique_headings,
                   collapsed, headings, hidx, stack, hierarchy, children, result,
                   exit_code>>

\* main, lines 546-552: 0 after "Conversion completed successfully!", 1 after
\* "Conversion failed!"
ExitStatus(output_path) == IF output_path # "None" THEN 0 ELSE 1

Main ==
    /\ pc = "returned"
    /\ exit_code' = ExitStatus(ret)
    /\ pc' = "done"
    /\ UNCHANGED <<pdf, io_ok, builtin_headings, text_headings, font_headings,
                   position_headings, all_headings, didx, unique_headings,
                   collapsed, headings, hidx, stack, hierarchy, children, result,
                   output_file, ret>>

-----------------------------------------------------------------------------
(* The documents the runs are checked on *)

\* '1. Introduction\nThis describes the overall approach.\n2. Methodology\nDetails follow.'
ScenarioText ==
    <<"1", ".", " ", "I", "n", "t", "r", "o", "d", "u", "c", "t", "i", "o",
      "n", "\n", "T", "h", "i", "s", " ", "d", "e", "s", "c", "r", "i", "b",
      "e", "s", " ", "t", "h", "e", " ", "o", "v", "e", "r", "a", "l", "l",
      " ", "a", "p", "p", "r", "o", "a", "c", "h", ".", "\n", "2", ".", " ",
      "M", "e", "t", "h", "o", "d", "o", "l", "o", "g", "y", "\n", "D", "e",
      "t", "a", "i", "l", "s", " ", "f", "o", "l", "l", "o", "w", ".">>

\* 'RESULTS AND DISCUSSION'
AllCapsText ==
    <<"R", "E", "S", "U", "L", "T", "S", " ", "A", "N", "D", " ", "D", "I",
      "S", "C", "U", "S", "S", "I", "O", "N">>

\* 'Results and Discussion'
KeywordText ==
    <<"R", "e", "s", "u", "l", "t", "s", " ", "a", "n", "d", " ", "D", "i",
      "s", "c", "u", "s", "s", "i", "o", "n">>

\* '1.2 Scope\n'
NumberedText ==
    <<"1", ".", "2", " ", "S", "c", "o", "p", "e", "\n">>

\* 'Part 2 of the long story\nOverview'
SectionText ==
    <<"P", "a", "r", "t", " ", "2", " ", "o", "f", " ", "t", "h", "e", " ",
      "l", "o", "n", "g", " ", "s", "t", "o", "r", "y", "\n", "O", "v", "e",
      "r", "v", "i", "e", "w">>

\* 'Goal 42!'
ShortText ==
    <<"G", "o", "a", "l", " ", "4", "2", "!">>

\* 'Project Plan'
CapitalizedText ==
    <<"P", "r", "o", "j", "e", "c", "t", " ", "P", "l", "a", "n">>

\* ''
EmptyText ==
    <<>>

PageTexts == {ScenarioText, AllCapsText, KeywordText, NumberedText, SectionText,
              ShortText, CapitalizedText, EmptyText}

\* 'Chapter 1'
TitleChapter == <<"C", "h", "a", "p", "t", "e", "r", " ", "1">>
\* 'Overview'
TitleOverview == <<"O", "v", "e", "r", "v", "i", "e", "w">>
\* 'Scope'
TitleScope == <<"S", "c", "o", "p", "e">>
\* 'Results and discussion.'
TitleResults == <<"R", "e", "s", "u", "l", "t", "s", " ", "a", "n", "d", " ", "d", "i", "s", "c", "u", "s", "s", "i", "o", "n", ".">>
\* 'Appendix'
TitleAppendix == <<"A", "p", "p", "e", "n", "d", "i", "x">>
\* 'Goal 42'
TitleGoal == <<"G", "o", "a", "l", " ", "4", "2">>
\* 'Notes'
TitleNotes == <<"N", "o", "t", "e", "s">>
\* 'Deep'
TitleDeep == <<"D", "e", "e", "p">>
\* 'Index'
TitleIndex == <<"I", "n", "d", "e", "x">>
\* 'p12'
StrP12 == <<"p", "1", "2">>
\* 'n/a'
StrNA == <<"n", "/", "a">>
\* 'page 007 of 10'
StrPage == <<"p", "a", "g", "e", " ", "0", "0", "7", " ", "o", "f", " ", "1", "0">>

IntPage(n) == [t |-> "int", n |-> n, s |-> <<>>]
\* a float page reference, given in tenths
FloatPage(tenths) == [t |-> "float", n |-> tenths, s |-> <<>>]
StrPage_(s) == [t |-> "str", n |-> 0, s |-> s]
NonePage == [t |-> "none", n |-> 0, s |-> <<>>]
AbsentPage == [t |-> "absent", n |-> 0, s |-> <<>>]

Entry(title, page) == [kind |-> "entry", title |-> title, page |-> page, items |-> <<>>]
Nested(items) == [kind |-> "list", title |-> <<>>, page |-> AbsentPage, items |-> items]

NoOutline == <<>>

\* pages given as float, int and string, two levels of nesting
BookOutline ==
    <<Entry(TitleChapter, FloatPage(20)),
      Nested(<<Entry(TitleOverview, IntPage(0)),
               Nested(<<Entry(TitleScope, StrPage_(StrP12))>>)>>),
      Entry(TitleResults, FloatPage(25))>>

\* entries whose page cannot be resolved
UnresolvedOutline ==
    <<Entry(TitleAppendix, NonePage),
      Entry(TitleGoal, AbsentPage),
      Entry(TitleNotes, StrPage_(StrNA)),
      Entry(<<>>, IntPage(3))>>

\* an outline that opens with a nested list
DeepOutline ==
    <<Nested(<<Nested(<<Entry(TitleDeep, IntPage(7))>>)>>),
      Entry(TitleIndex, StrPage_(StrPage)),
      Entry(TitleOverview, FloatPage(-5))>>

Outlines == {NoOutline, BookOutline, UnresolvedOutline, DeepOutline}

\* the largest number of pages of a document
MaxPages == 2

PageLists == UNION {[1..n -> PageTexts] : n \in 0..MaxPages}

Documents ==
    {[status |-> s, pages |-> <<>>, outline |-> NoOutline] : s \in {"missing", "unreadable"}}
    \cup {[status |-> "ok", pages |-> p, outline |-> o] : p \in PageLists, o \in Outlines}

\* the part of the state that a run has not reached yet
Untouched ==
    /\ io_ok = TRUE
    /\ builtin_headings = <<>>
    /\ text_headings = <<>>
    /\ font_headings = <<>>
    /\ position_headings = <<>>
    /\ headings = <<>>
    /\ hidx = 1
    /\ stack = <<>>
    /\ hierarchy = <<>>
    /\ children = <<>>
    /\ result = NoResult
    /\ output_file = NoResult
    /\ ret = "None"
    /\ exit_code = 0

\* BestPDFConverter(pdf_path), before main calls convert_to_json
Init ==
    /\ pc = "start"
    /\ pdf \in Documents
    /\ all_headings = <<>>
    /\ didx = 1
    /\ unique_headings = <<>>
    /\ collapsed = <<>>
    /\ Untouched

Next ==
    \/ LoadPdf
    \/ ExtractBuiltin
    \/ ExtractText
    \/ ExtractFont
    \/ ExtractPosition
    \/ Combine
    \/ DedupStep
    \/ DedupReturn
    \/ SortFinal
    \/ BuildSort
    \/ HierarchyStep
    \/ HierarchyReturn
    \/ Assemble
    \/ WriteJson
    \/ Main

Spec == Init /\ [][Next]_vars

-----------------------------------------------------------------------------
(* _advanced_deduplication on its own, for every list of candidates up to
   MaxCands entries *)

\* 'a b c d e'
TitleA == <<"a", " ", "b", " ", "c", " ", "d", " ", "e">>
\* 'a b c d f'
TitleB == <<"a", " ", "b", " ", "c", " ", "d", " ", "f">>
\* 'a b c d e f'
TitleC == <<"a", " ", "b", " ", "c", " ", "d", " ", "e", " ", "f">>
\* 'results and discussion'
TitleR1 == <<"r", "e", "s", "u", "l", "t", "s", " ", "a", "n", "d", " ",
             "d", "i", "s", "c", "u", "s", "s", "i", "o", "n">>
\* 'results  and discussion.'
TitleR2 == <<"r", "e", "s", "u", "l", "t", "s", " ", " ", "a", "n", "d", " ",
             "d", "i", "s", "c", "u", "s", "s", "i", "o", "n", ".">>
\* '...'
TitleDots == <<".", ".", ".">>
\* ' '
TitleBlank == <<" ">>

FusionTitles == {TitleA, TitleB, TitleC, TitleR1, TitleR2, TitleDots, TitleBlank}
FusionConfidences == {70, 80}

FusionCandidate(title, confidence) ==
    Heading(title, 1, 1, 1, "text_analysis", confidence)

FusionCandidates ==
    {FusionCandidate(t, c) : t \in FusionTitles, c \in FusionConfidences}

\* the longest list handed to _advanced_deduplication
MaxCands == 3

NoDocument == [status |-> "ok", pages |-> <<>>, outline |-> NoOutline]

InitFusion ==
    /\ pc = "dedup"
    /\ pdf = NoDocument
    /\ all_headings \in UNION {[1..n -> FusionCandidates] : n \in 0..MaxCands}
    /\ didx = 1
    /\ unique_headings = <<>>
    /\ collapsed = <<>>
    /\ Untouched

NextFusion == DedupStep \/ DedupReturn

FusionSpec == InitFusion /\ [][NextFusion]_vars

-----------------------------------------------------------------------------
(* _build_hierarchy on its own, for every list of candidates up to MaxNodes
   entries; levels are not contiguous, pages may be unresolved *)

HierarchyLevels == {0, 1, 3}

HierarchyCandidates ==
    {Heading(TitleScope, l, p, 1, "text_analysis", 70) :
        l \in HierarchyLevels, p \in {1, 2}}
    \cup {Heading(TitleScope, l, None, Absent, "builtin_outline", BuiltinConfidence) :
             l \in HierarchyLevels}

\* the longest list handed to _build_hierarchy
MaxNodes == 4

InitHierarchy ==
    /\ pc = "build"
    /\ pdf = NoDocument
    /\ all_headings = <<>>
    /\ didx = 1
    /\ unique_headings \in UNION {[1..n -> HierarchyCandidates] : n \in 0..MaxNodes}
    /\ collapsed = <<>>
    /\ Untouched

NextHierarchy == BuildSort \/ HierarchyStep \/ HierarchyReturn

HierarchySpec == InitHierarchy /\ [][NextHierarchy]_vars

-----------------------------------------------------------------------------
(* Properties *)

\* C1: a run whose load fails (file missing, unreadable or without pages)
\* returns no output path, exits nonzero and leaves no output file
C1_LoadFailureWritesNothing ==
    (pc = "done" /\ ~LoadSucceeds(pdf))
        => (ret = "None" /\ exit_code = 1 /\ output_file.kind = "none")

\* two entries that the deduplication is meant to tell apart
SimilarEntries(a, b) ==
    \/ NormalizeTitle(a.title) = NormalizeTitle(b.title)
    \/ SimilarityExceeds(NormalizeTitle(a.title), NormalizeTitle(b.title))

\* C2: the list _advanced_deduplication returns holds no two entries whose
\* normalized titles are identical or have a Jaccard similarity above 0.8
C2_NoSimilarPairLeft ==
    pc = "sort" =>
        \A i, j \in DOMAIN unique_headings :
            i # j => ~SimilarEntries(unique_headings[i], unique_headings[j])

\* the scenario of C3: 'results and discussion' at 0.8, 'results  and discussion.' at 0.7
ScenarioKept == FusionCandidate(TitleR1, 80)
ScenarioDropped == FusionCandidate(TitleR2, 70)

\* C3: every accepted entry is the candidate of highest confidence among the
\* candidates that collapsed into it and, among those of that confidence, the
\* one that came first; the scenario leaves the 0.8 candidate in either order
C3_SurvivorHasMaxConfidence ==
    /\ Len(collapsed) = Len(unique_headings)
    /\ \A k \in DOMAIN unique_headings :
          LET g == collapsed[k]
          IN  /\ g.origin \in g.group
              /\ unique_headings[k] = all_headings[g.origin]
              /\ \A i \in g.group :
                    /\ all_headings[i].confidence <= all_headings[g.origin].confidence
                    /\ all_headings[i].confidence = all_headings[g.origin].confidence
                           => g.origin <= i
    /\ (/\ pc = "sort"
        /\ all_headings \in {<<ScenarioKept, ScenarioDropped>>,
                             <<ScenarioDropped, ScenarioKept>>})
           => unique_headings = <<ScenarioKept>>

\* C3 witness: an entry that replaced an earlier one and then won a tie
C3_Witness ==
    /\ pc = "sort"
    /\ \E k \in DOMAIN unique_headings :
          /\ \E i \in collapsed[k].group : i < collapsed[k].origin
          /\ \E i \in collapsed[k].group :
                /\ i > collapsed[k].origin
                /\ all_headings[i].confidence
                       = all_headings[collapsed[k].origin].confidence

\* C4: in the forest of _build_hierarchy every child has a level strictly
\* greater than its parent's, so levels strictly increase along every path
C4_LevelsIncreaseAlongPaths ==
    \A i \in DOMAIN children :
        \A n \in DOMAIN children[i] :
            headings[children[i][n]].level > headings[i].level

\* C4 witness: a returned forest with a path of three nodes
C4_Witness ==
    /\ pc = "assemble"
    /\ \E r \in Range(hierarchy) :
          \E c \in Range(children[r]) : children[c] # <<>>

\* every candidate the four detectors emitted
Emitted == builtin_headings \o text_headings \o font_headings \o position_headings

\* C5 as stated: every emitted candidate has a confidence above 0.6 and at most 1.0
C5_ConfidenceAboveFloor ==
    \A i \in DOMAIN Emitted :
        Emitted[i].confidence > 60 /\ Emitted[i].confidence <= 100

\* C5 as amended: every emitted candidate has a confidence of at least 0.6 and
\* at most 1.0, above 0.6 unless the font heuristic emitted it
C5_ConfidenceAtLeastFloor ==
    \A i \in DOMAIN Emitted :
        /\ Emitted[i].confidence >= 60
        /\ Emitted[i].confidence <= 100
        /\ Emitted[i].source # "font_analysis" => Emitted[i].confidence > 60

\* C5 witness: all four detectors emitted something
C5_Witness ==
    /\ pc = "combine"
    /\ builtin_headings # <<>>
    /\ text_headings # <<>>
    /\ font_headings # <<>>
    /\ position_headings # <<>>

Sources == {"builtin_outline", "text_analysis", "font_analysis", "position_analysis"}

\* C6: in a written report the count of each source is the number of
\* candidates of that source that went into the deduplication
C6_CountsAreRawCounts ==
    output_file.kind = "report" =>
        \A source \in Sources :
            output_file.extraction_methods[source]
                = Cardinality({i \in DOMAIN all_headings :
                                  all_headings[i].source = source})

\* C6 witness: a report of a run in which the deduplication dropped candidates
\* of a document for which every detector emitted some
C6_Witness ==
    /\ output_file.kind = "report"
    /\ output_file.total_headings < Len(all_headings)
    /\ \A source \in Sources : output_file.extraction_methods[source] > 0

\* '1. Introduction'
TitleIntroduction ==
    <<"1", ".", " ", "I", "n", "t", "r", "o", "d", "u", "c", "t", "i", "o", "n">>
\* '2. Methodology'
TitleMethodology ==
    <<"2", ".", " ", "M", "e", "t", "h", "o", "d", "o", "l", "o", "g", "y">>

\* C7: for the page of the scenario the text detector emits exactly
\* '1. Introduction' and '2. Methodology', both with level 0 and confidence 0.9
C7_ScenarioYieldsTwoNumbered ==
    (pdf.pages = <<ScenarioText>> /\ pc \notin {"start", "builtin", "text"})
        => /\ Len(text_headings) = 2
           /\ text_headings[1].title = TitleIntroduction
           /\ text_headings[2].title = TitleMethodology
           /\ \A i \in 1..2 : /\ text_headings[i].level = 0
                              /\ text_headings[i].confidence = 90

\* the entries of an outline in order, each with its list-nesting depth
RECURSIVE OutlineEntries(_, _)
OutlineEntries(items, depth) ==
    IF items = <<>> THEN <<>>
    ELSE (IF items[1].kind = "list"
          THEN OutlineEntries(items[1].items, depth + 1)
          ELSE <<[title |-> items[1].title, page |-> items[1].page, depth |-> depth]>>)
         \o OutlineEntries(Tail(items), depth)

\* the whole part of a float given in tenths
WholePart(tenths) ==
    CHOOSE w \in -100..100 :
        IF tenths >= 0 THEN 10 * w <= tenths /\ tenths < 10 * w + 10
        ELSE 10 * w >= tenths /\ tenths > 10 * w - 10

\* the first integer embedded in a string
FirstEmbeddedInteger(s) ==
    CHOOSE v \in 0..1000 :
        \E a, b \in DOMAIN s :
            /\ a <= b
            /\ \A k \in 1..(a - 1) : s[k] \notin DigitChars
            /\ \A k \in a..b : s[k] \in DigitChars
            /\ (b = Len(s) \/ s[b + 1] \notin DigitChars)
            /\ v = ParseInt(SubSeq(s, a, b))

\* the 1-based page of a 0-based page reference, None when there is none
ResolvedPage(page) ==
    IF page.t = "int" THEN page.n + 1
    ELSE IF page.t = "float" THEN WholePart(page.n) + 1
    ELSE IF page.t = "str" /\ (\E k \in DOMAIN page.s : page.s[k] \in DigitChars)
    THEN FirstEmbeddedInteger(page.s) + 1
    ELSE None

\* C8: the outline reader emits one candidate per outline entry, with source
\* builtin_outline, confidence 0.95, the entry's nesting depth as level and the
\* entry's 0-based page reference plus one (None when it cannot be resolved)
C8_OutlineEntriesResolved ==
    (LoadSucceeds(pdf) /\ pc \notin {"start", "builtin"}) =>
        LET entries == OutlineEntries(pdf.outline, 0)
        IN  /\ Len(builtin_headings) = Len(entries)
            /\ \A i \in DOMAIN entries :
                  /\ builtin_headings[i].title = entries[i].title
                  /\ builtin_headings[i].source = "builtin_outline"
                  /\ builtin_headings[i].confidence = 95
                  /\ builtin_headings[i].level = entries[i].depth
                  /\ builtin_headings[i].page_number = ResolvedPage(entries[i].page)

\* C8 witness: page 2.0 resolved to 3, and 'p12' resolved to 13 two lists deep
C8_Witness ==
    /\ pc = "text"
    /\ \E i \in DOMAIN builtin_headings :
          /\ builtin_headings[i].title = TitleChapter
          /\ builtin_headings[i].page_number = 3
    /\ \E i \in DOMAIN builtin_headings :
          /\ builtin_headings[i].level = 2
          /\ builtin_headings[i].page_number = 13

Orderings(n) == {f \in [1..n -> 1..n] : \A i, j \in 1..n : f[i] = f[j] => i = j}

\* C9: any other order of the same candidates yields as many entries and, for
\* each entry, a duplicate of it with the same confidence
C9_OrderIndependent ==
    pc = "sort" =>
        \A f \in Orderings(Len(all_headings)) :
            LET other == AdvancedDeduplication([i \in DOMAIN all_headings |->
                                                   all_headings[f[i]]])
            IN  /\ Len(other) = Len(unique_headings)
                /\ \A i \in DOMAIN other :
                      \E j \in DOMAIN unique_headings :
                          /\ SimilarEntries(other[i], unique_headings[j])
                          /\ other[i].confidence = unique_headings[j].confidence

\* C10: a run whose deduplicated list mixes a None page with integer pages
\* succeeds, with the None-page candidates ahead of the others of their level
C10_NullPageRunSucceeds ==
    (/\ pc = "done"
     /\ io_ok
     /\ LoadSucceeds(pdf)
     /\ \E i \in DOMAIN unique_headings : unique_headings[i].page_number = None
     /\ \E i \in DOMAIN unique_headings : unique_headings[i].page_number # None)
        => /\ exit_code = 0
           /\ output_file.kind = "report"
           /\ \A i, j \in DOMAIN headings :
                 (/\ headings[i].level = headings[j].level
                  /\ headings[i].page_number = None
                  /\ headings[j].page_number # None) => i < j

\* C11: no entry of the list _advanced_deduplication returns has an empty
\* normalized title, candidates whose title is only punctuation included
C11_NoEmptyNormalizedTitle ==
    pc = "sort" =>
        \A i \in DOMAIN unique_headings :
            NormalizeTitle(unique_headings[i].title) # <<>>

\* the levels of the candidates handed to the stack loop
LevelsPresent == {headings[i].level : i \in DOMAIN headings}

\* the last candidate, in sort order, of a level that is present
LastOfLevel(l) ==
    CHOOSE i \in DOMAIN headings :
        /\ headings[i].level = l
        /\ \A j \in DOMAIN headings : headings[j].level = l => j <= i

\* the greatest level present below l
NextLowerLevel(l) ==
    CHOOSE m \in LevelsPresent :
        m < l /\ \A k \in LevelsPresent : k < l => k <= m

\* C12: in the forest _build_hierarchy returns only the last candidate of a
\* level has children, every candidate above the lowest level present is a
\* child of the last candidate of the next lower level present, whatever the
\* pages and lines, and the children of a node all have the same level
C12_ChildrenOfLastOfLowerLevel ==
    pc = "assemble" =>
        /\ \A i \in DOMAIN headings :
              children[i] # <<>> => i = LastOfLevel(headings[i].level)
        /\ \A i \in DOMAIN headings :
              (\E k \in LevelsPresent : k < headings[i].level)
                  => i \in Range(children[LastOfLevel(
                                     NextLowerLevel(headings[i].level))])
        /\ \A i \in DOMAIN headings :
              \A a, b \in Range(children[i]) :
                  headings[a].level = headings[b].level

\* C12 witness: a returned forest in which a candidate of the lowest level has
\* no children, the last one of that level has two, one of them on a page
\* before its parent's, and the levels are not contiguous
C12_Witness ==
    /\ pc = "assemble"
    /\ \E i, p \in DOMAIN headings :
          /\ i < p
          /\ headings[i].level = headings[p].level
          /\ children[i] = <<>>
          /\ Len(children[p]) = 2
          /\ headings[children[p][1]].level = 3
          /\ headings[p].page_number = 2
          /\ headings[children[p][1]].page_number = 1

\* the number of nodes of the forest with the given roots
RECURSIVE ForestSize(_, _)
ForestSize(ch, roots) ==
    IF roots = <<>> THEN 0
    ELSE 1 + ForestSize(ch, ch[roots[1]]) + ForestSize(ch, Tail(roots))

\* the number of places, among the roots and all lists of children, that hold j
Occurrences(ch, roots, j) ==
    Cardinality({k \in DOMAIN roots : roots[k] = j})
    + Cardinality({p \in UNION {{<<i, k>> : k \in DOMAIN ch[i]} : i \in DOMAIN ch} :
                      ch[p[1]][p[2]] = j})

\* each of n candidates is a root or a child of one node, once, and is in the forest
EachExactlyOnce(ch, roots, n) ==
    /\ DOMAIN ch = 1..n
    /\ \A j \in 1..n : Occurrences(ch, roots, j) = 1
    /\ ForestSize(ch, roots) = n

\* C13: every candidate of the deduplicated list appears exactly once in the
\* forest _build_hierarchy returns, as a root or as a child of one node, and
\* the forest of a report has total_headings nodes
C13_EveryCandidateOnceInForest ==
    /\ pc = "assemble" => EachExactlyOnce(children, hierarchy, Len(unique_headings))
    /\ result.kind = "report"
           => EachExactlyOnce(result.children, result.headings, result.total_headings)

\* C13 witness: a written report whose forest has a node with two children and
\* a node three levels deep, after the deduplication dropped a candidate
C13_Witness ==
    /\ output_file.kind = "report"
    /\ output_file.total_headings < Len(all_headings)
    /\ \E i \in DOMAIN output_file.children : Len(output_file.children[i]) >= 2
    /\ \E r \in Range(output_file.headings) :
          \E c \in Range(output_file.children[r]) : output_file.children[c] # <<>>

====
